---------------------------- MODULE Spec2Model ----------------------------
(***************************************************************************)
(* A model of the single-domain page crawler in its three variants:        *)
(*   crawl.py        requests + BeautifulSoup, signal handler, flag        *)
(*   crawl_pages.py  requests + BeautifulSoup, no signal handling          *)
(*   spa_crawl.py    Playwright, signal handler, no flag                   *)
(* A URL is a Python str, modelled as a sequence of one-character strings, *)
(* so that urlparse, the f-string rebuild and rstrip('/') are computed as  *)
(* the code computes them.                                                 *)
(***************************************************************************)
EXTENDS Naturals, Sequences, FiniteSets, TLC

VARIABLES
    \* ---- the crawler object and the process (specification Spec) ----
    variant,        \* which script runs: "crawl", "crawl_pages", "spa_crawl"
    domain,         \* self.domain
    visited,        \* self.visited : set of str
    to_visit,       \* self.to_visit : deque of str
    results,        \* self.results : list of {url, title, description}
    interrupted,    \* self.interrupted (crawl.py only)
    browser,        \* spa_crawl.py: "none" | "open" | "stopped"
    pc,             \* position of the main thread
    url,            \* local of crawl(): the popped entry
    normalized_url, \* local of crawl()
    title,          \* local of crawl()
    links,          \* local of crawl(): links still to be offered
    exc,            \* exception that left crawl(): "none" | "Exception" | "SystemExit" | "KeyboardInterrupt"
    csv,            \* the output file: [exists, rows]
    saves,          \* history: number of save_to_csv invocations
    signals,        \* history: number of signals delivered
    mark,           \* history: what had happened when the first signal arrived
    fetched,        \* history: every fetch started, in order, with its outcome
    dequeues,       \* history: number of popleft() calls
    appended,       \* history: the canonical URLs in the order they first entered the queue
    \* ---- inputs and outputs of normalize_url (specification SpecNorm) ----
    raw,            \* a raw URL u
    other,          \* a raw URL differing from u as `rel` says
    rel,            \* "fragment" | "slash"
    once,           \* normalize_url(u)
    twice,          \* normalize_url(normalize_url(u))
    onceOther,      \* normalize_url(other)
    ndone,          \* which of once, twice, onceOther have been computed
    \* ---- input and output of is_valid_page_url (specification SpecValid) ----
    vparts,         \* the parts a URL is written from
    vurl,           \* the URL
    valid           \* is_valid_page_url(vurl): "True" | "False", "unset" before the call

crawlVars == <<variant, domain, visited, to_visit, results, interrupted, browser,
               pc, url, normalized_url, title, links, exc, csv, saves, signals,
               mark, fetched, dequeues, appended>>
normVars == <<raw, other, rel, once, twice, onceOther, ndone>>
validVars == <<vparts, vurl, valid>>
pureVars == <<normVars, validVars>>
vars == <<crawlVars, pureVars>>

---------------------------------------------------------------------------
(* Python str operations *)

Range(s) == {s[i] : i \in 1..Len(s)}

\* The value of a one-element set.  { F(x) : x \in {e} } computes e once and
\* hands F its value, so Pick({ F(x) : x \in {e} }) is F(e) with e computed
\* a single time.
Pick(S) == CHOOSE x \in S : TRUE

\* str.find(c, start) with 1-based positions: 0 when c does not occur
Find(s, c, start) ==
    IF \E i \in start..Len(s) : s[i] = c
    THEN CHOOSE i \in start..Len(s) : s[i] = c /\ \A j \in start..(i - 1) : s[j] # c
    ELSE 0

UpperCase == <<"A","B","C","D","E","F","G","H","I","J","K","L","M",
               "N","O","P","Q","R","S","T","U","V","W","X","Y","Z">>
LowerCase == <<"a","b","c","d","e","f","g","h","i","j","k","l","m",
               "n","o","p","q","r","s","t","u","v","w","x","y","z">>
Letters == Range(UpperCase) \cup Range(LowerCase)
Digits == {"0","1","2","3","4","5","6","7","8","9"}

\* str.lower()
LowerChar(c) ==
    IF c \in Range(UpperCase)
    THEN LowerCase[CHOOSE i \in 1..Len(UpperCase) : UpperCase[i] = c]
    ELSE c
Lower(s) == [i \in 1..Len(s) |-> LowerChar(s[i])]

\* str.endswith(suffix)
EndsWith(s, suffix) ==
    /\ Len(suffix) <= Len(s)
    /\ \A k \in 1..Len(suffix) : s[Len(s) - Len(suffix) + k] = suffix[k]

\* str.startswith(prefix)
StartsWith(s, prefix) ==
    /\ Len(prefix) <= Len(s)
    /\ \A k \in 1..Len(prefix) : s[k] = prefix[k]

\* str.rstrip('/'): every trailing '/' of the whole string goes
RStripSlash(s) ==
    IF \E i \in 1..Len(s) : s[i] # "/"
    THEN SubSeq(s, 1, CHOOSE i \in 1..Len(s) :
                         s[i] # "/" /\ \A j \in (i + 1)..Len(s) : s[j] = "/")
    ELSE <<>>

---------------------------------------------------------------------------
(* urllib.parse.urlparse, as far as the code reads its result.  No ';'      *)
(* occurs in the modelled alphabet, so the params split of urlparse never  *)
(* applies.  The crawl loop applies it to what urljoin returned, and       *)
(* urljoin raises on what urlparse raises on (InvalidIPv6).                *)

scheme_chars == Letters \cup Digits \cup {"+", "-", "."}

\* urlsplit: the scheme is what precedes the first ':', when that is a
\* letter followed by scheme characters; it is lowercased
SplitScheme(u) ==
    IF /\ Find(u, ":", 1) > 1
       /\ u[1] \in Letters
       /\ \A k \in 1..(Find(u, ":", 1) - 1) : u[k] \in scheme_chars
    THEN [scheme |-> Lower(SubSeq(u, 1, Find(u, ":", 1) - 1)),
          rest |-> SubSeq(u, Find(u, ":", 1) + 1, Len(u))]
    ELSE [scheme |-> <<>>, rest |-> u]

\* _splitnetloc: where the netloc that starts at position 3 ends, the first
\* of '/', '?', '#' or the end of the string
NetlocEnd(r) ==
    IF \E i \in 3..Len(r) : r[i] \in {"/", "?", "#"}
    THEN CHOOSE i \in 3..Len(r) :
            r[i] \in {"/", "?", "#"} /\ \A j \in 3..(i - 1) : r[j] \notin {"/", "?", "#"}
    ELSE Len(r) + 1

\* urlsplit: the netloc follows a leading '//'
SplitNetloc(r) ==
    IF Len(r) >= 2 /\ r[1] = "/" /\ r[2] = "/"
    THEN [netloc |-> SubSeq(r, 3, NetlocEnd(r) - 1),
          rest |-> SubSeq(r, NetlocEnd(r), Len(r))]
    ELSE [netloc |-> <<>>, rest |-> r]

\* url.split(c, 1) when c occurs: what precedes the first c, and what follows it
SplitAt(r, c) ==
    IF Find(r, c, 1) > 0
    THEN [before |-> SubSeq(r, 1, Find(r, c, 1) - 1),
          after |-> SubSeq(r, Find(r, c, 1) + 1, Len(r))]
    ELSE [before |-> r, after |-> <<>>]

\* urlsplit raises ValueError("Invalid IPv6 URL") when the netloc has one
\* of '[' and ']' without the other; urljoin(base, href) parses href first
\* and raises the same
InvalidIPv6(u) ==
    \A netloc \in {SplitNetloc(SplitScheme(u).rest).netloc} :
        ("[" \in Range(netloc)) # ("]" \in Range(netloc))

\* urlparse: scheme, then netloc, then the fragment after the first '#',
\* then the query after the first '?'; what is left is the path
urlparse(u) ==
    Pick({ Pick({ Pick({ Pick({
        [scheme |-> a.scheme, netloc |-> b.netloc, path |-> d.before,
         query |-> d.after, fragment |-> c.after]
        : d \in {SplitAt(c.before, "?")} })
        : c \in {SplitAt(b.rest, "#")} })
        : b \in {SplitNetloc(a.rest)} })
        : a \in {SplitScheme(u)} })

---------------------------------------------------------------------------
(* PageCrawler's pure methods *)

\* the f-string of normalize_url: f"{scheme}://{netloc}{path}", plus
\* f"?{query}" when the query is not empty
Rebuild(parsed) ==
    parsed.scheme \o <<":", "/", "/">> \o parsed.netloc \o parsed.path
    \o (IF parsed.query # <<>> THEN <<"?">> \o parsed.query ELSE <<>>)

\* normalize_url: the rebuilt string with rstrip('/') applied to the whole
\* of it, or self.domain when that leaves nothing
normalize_url(self_domain, u) ==
    Pick({ IF stripped # <<>> THEN stripped ELSE self_domain
           : stripped \in { RStripSlash(normalized)
                            : normalized \in { Rebuild(parsed)
                                               : parsed \in {urlparse(u)} } } })

\* is_same_domain without the comparison
is_same_domain_AnyHost(self_domain, u) == TRUE

\* is_same_domain: the two netlocs are equal
is_same_domain(self_domain, u) ==
    urlparse(u).netloc = urlparse(self_domain).netloc

skip_extensions == {
    <<".","p","d","f">>, <<".","z","i","p">>, <<".","t","a","r">>, <<".","g","z">>,
    <<".","r","a","r">>,
    <<".","j","p","g">>, <<".","j","p","e","g">>, <<".","p","n","g">>,
    <<".","g","i","f">>, <<".","s","v","g">>, <<".","w","e","b","p">>,
    <<".","i","c","o">>,
    <<".","m","p","3">>, <<".","m","p","4">>, <<".","a","v","i">>,
    <<".","m","o","v">>, <<".","w","m","v">>,
    <<".","d","o","c">>, <<".","d","o","c","x">>, <<".","x","l","s">>,
    <<".","x","l","s","x">>, <<".","p","p","t">>, <<".","p","p","t","x">>,
    <<".","c","s","s">>, <<".","j","s">>, <<".","j","s","o","n">>,
    <<".","x","m","l">> }

\* is_valid_page_url with parsed.path for parsed.path.lower()
is_valid_page_url_NoLower(u) ==
    \A path \in {urlparse(u).path} :
        ~ \E ext \in skip_extensions : EndsWith(path, ext)

\* is_valid_page_url: the lowercased path ends with no skip-extension
is_valid_page_url(u) ==
    \A path_lower \in {Lower(urlparse(u).path)} :
        ~ \E ext \in skip_extensions : EndsWith(path_lower, ext)

---------------------------------------------------------------------------
(* The URLs of the model *)

HTTP == <<"h","t","t","p">>
HostX == <<"x">>                       \* the origin's host
HostY == <<"y">>                       \* another host
Origin == HTTP \o <<":","/","/">> \o HostX      \* "http://x"
Foreign == HTTP \o <<":","/","/">> \o HostY     \* "http://y"

\* '/' repeated n times
RECURSIVE Slashes(_)
Slashes(n) == IF n = 0 THEN <<>> ELSE <<"/">> \o Slashes(n - 1)

MaxSlashes == 2

\* The raw URLs normalize_url is applied to.  It is given self.domain and the
\* results of urljoin against an absolute http URL, which all carry a scheme:
\* here http URLs with an authority; a path with 0..MaxSlashes trailing
\* slashes; no query, an empty one, one ending in '/'; with or without a
\* fragment.
Absent == [has |-> FALSE, s |-> <<>>]
Some(str) == [has |-> TRUE, s |-> str]
RawParts ==
    [ head : {[scheme |-> HTTP, auth |-> Some(HostX)],
               [scheme |-> HTTP, auth |-> Some(HostY)]},
      path : {Slashes(n) : n \in 0..MaxSlashes}
             \cup {<<"/","a">> \o Slashes(n) : n \in 0..MaxSlashes},
      query : {Absent, Some(<<>>), Some(<<"q">>), Some(<<"/">>), Some(<<"q","/">>)},
      fragment : {Absent, Some(<<"f">>)} ]

\* the string a raw URL of these parts is written as
Compose(p) ==
    p.head.scheme \o <<":">>
    \o (IF p.head.auth.has THEN <<"/","/">> \o p.head.auth.s ELSE <<>>)
    \o p.path
    \o (IF p.query.has THEN <<"?">> \o p.query.s ELSE <<>>)
    \o (IF p.fragment.has THEN <<"#">> \o p.fragment.s ELSE <<>>)

\* the same URL with another fragment, or with one more '/' at the end of its path
OtherFragment(p) == [p EXCEPT !.fragment = IF p.fragment.has THEN Absent ELSE Some(<<"g">>)]
OneMoreSlash(p) == [p EXCEPT !.path = p.path \o <<"/">>]

\* no URL
NoParts == [head |-> [scheme |-> <<>>, auth |-> Absent], path |-> <<>>,
            query |-> Absent, fragment |-> Absent]

---------------------------------------------------------------------------
(* The site that is crawled: what the fetch backend and the HTML parser    *)
(* return.  hrefs are written absolute, as urljoin(base, href) leaves them. *)

U(path) == Origin \o path

HomeLinks == << U(<<"/","a","/">>),                    \* http://x/a/
                U(<<"/","a">>),                        \* http://x/a
                Foreign \o <<"/","a">>,                \* http://y/a
                <<"m",":","x">>,                       \* m:x  (a "mailto:"-like href)
                U(<<"/","b","?","/">>),                \* http://x/b?/
                U(<<"/","c",".","j","s","/","?","/">>) \* http://x/c.js/?/
             >>
ALinks == << U(<<"/","#","f">>),                       \* http://x/#f
             U(<<"/","b">>),                           \* http://x/b
             U(<<"/","a","/","?","q">>),               \* http://x/a/?q
             U(<<"/","b","?","/">>) >>                   \* http://x/b?/
BLinks == << HTTP \o <<":","/","/","[">>,               \* http://[  (malformed)
            U(<<"/","a","#","f">>),                    \* http://x/a#f
            U(<<"/","d">>) >>                          \* http://x/d

\* soup.find_all('a', href=True) / page.query_selector_all('a[href]') with
\* urljoin applied: the links of the page the server sends for this path
LinksOf(u) ==
    Pick({ IF p = <<>> THEN HomeLinks
           ELSE IF p = <<"/","a">> THEN ALinks
           ELSE IF p = <<"/","b">> THEN BLinks
           ELSE <<>>
           : p \in {RStripSlash(urlparse(u).path)} })

PageTitle == "T"
PageDescription == "D"

\* What session.get / page.goto can do for a URL: requests has no adapter
\* for a scheme other than http(s) and raises InvalidSchema, a
\* RequestException; the browser refuses such a URL as well.
FetchOutcomes(u) ==
    IF urlparse(u).scheme \in {HTTP, HTTP \o <<"s">>}
    THEN {"html", "not_html", "timeout", "error"}
    ELSE {"error"}

---------------------------------------------------------------------------
(* Specification Spec: one run of main() of one of the three scripts *)

MaxSignals == 1

NoMark == [set |-> FALSE, results |-> <<>>, nfetched |-> 0, ndequeues |-> 0]

Variants == {"crawl", "crawl_pages", "spa_crawl"}

\* the `domain` argument of the command line: the bare origin, with or
\* without a trailing slash, and a URL of the site that ends in a
\* skip-extension
Origins == {Origin, Origin \o <<"/">>, Origin \o <<"/","c",".","j","s">>}

\* main() exits with an error unless the argument starts with http:// or https://
AcceptedDomain(arg) ==
    \/ StartsWith(arg, HTTP \o <<":","/","/">>)
    \/ StartsWith(arg, HTTP \o <<"s",":","/","/">>)

\* main() up to the call of crawler.crawl(): PageCrawler.__init__ and, in
\* crawl.py and spa_crawl.py, the installation of the signal handler
Init ==
    /\ variant \in Variants
    /\ \E arg \in Origins : AcceptedDomain(arg) /\ domain = RStripSlash(arg)
    /\ visited = {}
    /\ to_visit = <<domain>>
    /\ results = <<>>
    /\ interrupted = FALSE
    /\ browser = "none"
    /\ pc = "crawl_start"
    /\ url = <<>> /\ normalized_url = <<>> /\ title = "" /\ links = <<>>
    /\ exc = "none"
    /\ csv = [exists |-> FALSE, rows |-> <<>>]
    /\ saves = 0 /\ signals = 0 /\ mark = NoMark
    /\ fetched = <<>> /\ dequeues = 0 /\ appended = <<normalize_url(domain, domain)>>
    /\ raw = <<>> /\ other = <<>> /\ rel = "none"
    /\ once = <<>> /\ twice = <<>> /\ onceOther = <<>> /\ ndone = {}
    /\ vparts = NoParts /\ vurl = <<>> /\ valid = "unset"

\* save_to_csv writing the records last to first
save_to_csv_Reversed(v, res, file) ==
    IF v # "crawl_pages" /\ res = <<>> THEN file
    ELSE [exists |-> TRUE, rows |-> [i \in 1..Len(res) |-> res[Len(res) + 1 - i]]]

\* save_to_csv: the file is opened with 'w' and gets every record; crawl.py
\* and spa_crawl.py return before that when there is no record
save_to_csv(v, res, file) ==
    IF v # "crawl_pages" /\ res = <<>> THEN file
    ELSE [exists |-> TRUE, rows |-> res]

\* stop_browser: closes what start_browser opened
stop_browser(b) == IF b = "none" THEN "none" ELSE "stopped"

\* the while condition of crawl()
LoopCondition ==
    /\ to_visit # <<>>
    /\ ~ (variant = "crawl" /\ interrupted)

\* the `continue` tests without `if normalized_url in self.visited`
SkipDequeued_NoVisitedTest(u) ==
    \/ ~ is_same_domain(domain, u)
    \/ (variant # "crawl_pages" /\ ~ is_valid_page_url(u))

\* the loop without the is_valid_page_url test
SkipDequeued_NoValidTest(u) ==
    \/ u \in visited
    \/ ~ is_same_domain(domain, u)

\* the three `continue` tests after the pop; crawl_pages.py has no
\* is_valid_page_url test
SkipDequeued(u) ==
    \/ u \in visited
    \/ ~ is_same_domain(domain, u)
    \/ (variant # "crawl_pages" /\ ~ is_valid_page_url(u))

\* the test that guards to_visit.append for a link
Enqueueable(normalized_link) ==
    /\ is_same_domain(domain, normalized_link)
    /\ (variant = "crawl_pages" \/ is_valid_page_url(normalized_link))
    /\ normalized_link \notin visited
    /\ normalized_link \notin Range(to_visit)

\* what is appended: crawl_pages.py appends absolute_url, the others normalized_link
QueueEntry(link, normalized_link) ==
    IF variant = "crawl_pages" THEN link ELSE normalized_link

\* a fetch that raised ends the loop (`break` for `continue`)
AfterFetchError_Break == "crawl_end"

\* session.get without timeout=10: a request that gets no answer never
\* returns, and the main thread stays in it
AfterFetchError_Blocked == "blocked"

\* where a fetch that raised goes on: the except clauses `continue`
AfterFetchError == "while"

Response == fetched[Len(fetched)].outcome

\* crawl(): the prints before the loop; spa_crawl.py starts the browser
CrawlStart ==
    /\ pc = "crawl_start"
    /\ browser' = IF variant = "spa_crawl" THEN "open" ELSE browser
    /\ pc' = "while"
    /\ UNCHANGED <<variant, domain, visited, to_visit, results, interrupted, url,
                   normalized_url, title, links, exc, csv, saves, signals, mark,
                   fetched, dequeues, appended, pureVars>>

\* while ...: url = self.to_visit.popleft(); normalized_url = self.normalize_url(url)
Dequeue ==
    /\ pc = "while"
    /\ LoopCondition
    /\ url' = Head(to_visit)
    /\ to_visit' = Tail(to_visit)
    /\ normalized_url' = normalize_url(domain, Head(to_visit))
    /\ dequeues' = dequeues + 1
    /\ pc' = "check"
    /\ UNCHANGED <<variant, domain, visited, results, interrupted, browser, title,
                   links, exc, csv, saves, signals, mark, fetched, appended, pureVars>>

\* the loop condition is false: crawl() goes on after the loop
LoopExit ==
    /\ pc = "while"
    /\ ~ LoopCondition
    /\ pc' = "crawl_end"
    /\ UNCHANGED <<variant, domain, visited, to_visit, results, interrupted, browser,
                   url, normalized_url, title, links, exc, csv, saves, signals, mark,
                   fetched, dequeues, appended, pureVars>>

\* already visited, not the same domain, or not a page URL: continue
Skip ==
    /\ pc = "check"
    /\ SkipDequeued(normalized_url)
    /\ pc' = "while"
    /\ UNCHANGED <<variant, domain, visited, to_visit, results, interrupted, browser,
                   url, normalized_url, title, links, exc, csv, saves, signals, mark,
                   fetched, dequeues, appended, pureVars>>

\* the loop without self.visited.add(normalized_url)
visited_add_Missing(seen, u) == seen

\* set.add
visited_add(seen, u) == seen \cup {u}

\* self.visited.add(normalized_url)
MarkVisited ==
    /\ pc = "check"
    /\ ~ SkipDequeued(normalized_url)
    /\ visited' = visited_add(visited, normalized_url)
    /\ pc' = "fetch"
    /\ UNCHANGED <<variant, domain, to_visit, results, interrupted, browser, url,
                   normalized_url, title, links, exc, csv, saves, signals, mark,
                   fetched, dequeues, appended, pureVars>>

\* where the loop goes after the fetch: an exception (a timeout, a transport
\* or HTTP error; in spa_crawl.py also a browser that was stopped) is caught
\* and the loop continues; crawl.py continues too when the content type is
\* not text/html
AfterFetch(outcome) ==
    IF outcome \in {"timeout", "error"} THEN AfterFetchError
    ELSE IF variant = "crawl" /\ outcome = "not_html" THEN "while"
    ELSE "extract_title"

\* session.get(normalized_url, timeout=10); raise_for_status()  /  page.goto(...)
Fetch ==
    /\ pc = "fetch"
    /\ \E o \in (IF variant = "spa_crawl" /\ browser # "open"
                 THEN {"error"} ELSE FetchOutcomes(normalized_url)) :
        /\ fetched' = Append(fetched, [url |-> normalized_url, outcome |-> o])
        /\ pc' = AfterFetch(o)
    /\ UNCHANGED <<variant, domain, visited, to_visit, results, interrupted, browser,
                   url, normalized_url, title, links, exc, csv, saves, signals, mark,
                   dequeues, appended, pureVars>>

\* extract_page_info, the title: '' when the document has none (a body that
\* is not HTML), and in spa_crawl.py when page.title() raises
ExtractTitle ==
    /\ pc = "extract_title"
    /\ title' = IF Response = "html" /\ browser # "stopped" THEN PageTitle ELSE ""
    /\ pc' = "extract_description"
    /\ UNCHANGED <<variant, domain, visited, to_visit, results, interrupted, browser,
                   url, normalized_url, links, exc, csv, saves, signals, mark,
                   fetched, dequeues, appended, pureVars>>

\* the record that is appended
PageRecord(u, t, d) == [url |-> u, title |-> t, description |-> d]

\* extract_page_info, the description, and self.results.append({...})
ExtractDescription ==
    /\ pc = "extract_description"
    /\ results' = Append(results,
            PageRecord(normalized_url, title,
                       IF Response = "html" /\ browser # "stopped"
                       THEN PageDescription ELSE ""))
    /\ pc' = "extract_links"
    /\ UNCHANGED <<variant, domain, visited, to_visit, interrupted, browser, url,
                   normalized_url, title, links, exc, csv, saves, signals, mark,
                   fetched, dequeues, appended, pureVars>>

\* the anchors of the page that was fetched
Anchors ==
    IF Response = "html" /\ browser # "stopped" THEN LinksOf(normalized_url) ELSE <<>>

\* where the loop goes on when the handling of the links raised: the
\* `except Exception` clause prints the error and continues
AfterLinkError == "while"

\* extract_links: spa_crawl.py drops an anchor whose urljoin raises (the
\* bare `except:` inside its for loop); crawl_pages.py has no extract_links
\* and calls urljoin inside the loop over the anchors
extract_links(v, hrefs) ==
    IF v = "spa_crawl" THEN SelectSeq(hrefs, LAMBDA h : ~ InvalidIPv6(h)) ELSE hrefs

\* crawl.py's extract_links has no try: urljoin raising for one anchor
\* leaves extract_links with the exception
ExtractLinksRaises ==
    variant = "crawl" /\ \E i \in 1..Len(Anchors) : InvalidIPv6(Anchors[i])

\* links = self.extract_links(...)
ExtractLinks ==
    /\ pc = "extract_links"
    /\ links' = IF ExtractLinksRaises THEN <<>> ELSE extract_links(variant, Anchors)
    /\ pc' = IF ExtractLinksRaises THEN AfterLinkError ELSE "link_loop"
    /\ UNCHANGED <<variant, domain, visited, to_visit, results, interrupted, browser,
                   url, normalized_url, title, exc, csv, saves, signals, mark,
                   fetched, dequeues, appended, pureVars>>

\* the queue after one link has been offered
Offer(queue, link) ==
    Pick({ IF Enqueueable(normalized_link)
           THEN Append(queue, QueueEntry(link, normalized_link))
           ELSE queue
           : normalized_link \in {normalize_url(domain, link)} })

\* the canonical URL of a queue entry: what the loop makes of it when it is popped
Canonical(entry) == normalize_url(domain, entry)

\* history: the canonical URL of an entry that was appended is noted when
\* it is the first entry with that canonical URL
FirstAppended(hist, queue_before, queue_after) ==
    IF Len(queue_after) > Len(queue_before)
    THEN Pick({ IF c \in Range(hist) THEN hist ELSE Append(hist, c)
                : c \in {Canonical(queue_after[Len(queue_after)])} })
    ELSE hist

\* one turn of `for link in links`; in crawl_pages.py the turn starts with
\* urljoin, and when that raises the except clause ends the whole loop
OfferLink ==
    /\ pc = "link_loop"
    /\ links # <<>>
    /\ IF variant = "crawl_pages" /\ InvalidIPv6(Head(links))
       THEN /\ to_visit' = to_visit
            /\ links' = <<>>
            /\ pc' = AfterLinkError
       ELSE /\ to_visit' = Offer(to_visit, Head(links))
            /\ links' = Tail(links)
            /\ pc' = pc
    /\ appended' = FirstAppended(appended, to_visit, to_visit')
    /\ UNCHANGED <<variant, domain, visited, results, interrupted, browser, url,
                   normalized_url, title, exc, csv, saves, signals, mark, fetched,
                   dequeues, pureVars>>

\* the for loop is over
LinksDone ==
    /\ pc = "link_loop"
    /\ links = <<>>
    /\ pc' = "sleep"
    /\ UNCHANGED <<variant, domain, visited, to_visit, results, interrupted, browser,
                   url, normalized_url, title, links, exc, csv, saves, signals, mark,
                   fetched, dequeues, appended, pureVars>>

\* time.sleep(self.delay)
Sleep ==
    /\ pc = "sleep"
    /\ pc' = "while"
    /\ UNCHANGED <<variant, domain, visited, to_visit, results, interrupted, browser,
                   url, normalized_url, title, links, exc, csv, saves, signals, mark,
                   fetched, dequeues, appended, pureVars>>

\* after the loop: spa_crawl.py's finally stops the browser; the prints;
\* crawl() returns to main()
CrawlEnd ==
    /\ pc = "crawl_end"
    /\ browser' = IF variant = "spa_crawl" THEN stop_browser(browser) ELSE browser
    /\ pc' = "save"
    /\ UNCHANGED <<variant, domain, visited, to_visit, results, interrupted, url,
                   normalized_url, title, links, exc, csv, saves, signals, mark,
                   fetched, dequeues, appended, pureVars>>

\* main(): crawler.save_to_csv() -- the finally clause of crawl.py and
\* spa_crawl.py, the statement after crawler.crawl() of crawl_pages.py --
\* and the end of the process
Save ==
    /\ pc = "save"
    /\ csv' = save_to_csv(variant, results, csv)
    /\ saves' = saves + 1
    /\ pc' = "exited"
    /\ UNCHANGED <<variant, domain, visited, to_visit, results, interrupted, browser,
                   url, normalized_url, title, links, exc, signals, mark, fetched,
                   dequeues, appended, pureVars>>

---------------------------------------------------------------------------
(* Signals and exceptions.  Python runs a signal handler in the main       *)
(* thread between two bytecodes, wherever the thread is; what the handler  *)
(* raises is raised at that place.                                         *)

InCrawl == pc \in {"crawl_start", "while", "check", "fetch", "extract_title",
                   "extract_description", "extract_links", "link_loop", "sleep",
                   "crawl_end"}

\* history: what had happened when the first signal arrived
Marked ==
    IF mark.set THEN mark
    ELSE [set |-> TRUE, results |-> results, nfetched |-> Len(fetched),
          ndequeues |-> dequeues]

\* signal_handler of crawl.py and spa_crawl.py up to sys.exit(0):
\* crawler.interrupted = True (crawl.py) or crawler.stop_browser()
\* (spa_crawl.py), then crawler.save_to_csv()
Handler ==
    /\ variant \in {"crawl", "spa_crawl"}
    /\ interrupted' = IF variant = "crawl" THEN TRUE ELSE interrupted
    /\ browser' = IF variant = "spa_crawl" THEN stop_browser(browser) ELSE browser
    /\ csv' = save_to_csv(variant, results, csv)
    /\ saves' = saves + 1

\* crawl_pages.py installs no handler: SIGINT raises KeyboardInterrupt
NoHandler ==
    /\ variant = "crawl_pages"
    /\ UNCHANGED <<interrupted, browser, csv, saves>>

\* where SystemExit goes when no bare `except:` is around the place it is
\* raised at: `except Exception` does not catch it, the finally clause of
\* main() is next
AfterSystemExit == "save"

\* SIGINT or SIGTERM, and the SystemExit of sys.exit(0) (the
\* KeyboardInterrupt of crawl_pages.py) leaves crawl(): in crawl.py and
\* spa_crawl.py main()'s finally clause is next, crawl_pages.py ends with a
\* traceback
SignalPropagates ==
    /\ InCrawl
    /\ signals < MaxSignals
    /\ \/ Handler /\ pc' = AfterSystemExit /\ exc' = "SystemExit"
       \/ NoHandler /\ pc' = "exited" /\ exc' = "KeyboardInterrupt"
    /\ signals' = signals + 1
    /\ mark' = Marked
    /\ UNCHANGED <<variant, domain, visited, to_visit, results, url, normalized_url,
                   title, links, fetched, dequeues, appended, pureVars>>

\* SIGTERM in crawl_pages.py: the default action ends the process
Killed ==
    /\ InCrawl
    /\ signals < MaxSignals
    /\ variant = "crawl_pages"
    /\ pc' = "killed"
    /\ signals' = signals + 1
    /\ mark' = Marked
    /\ UNCHANGED <<variant, domain, visited, to_visit, results, interrupted, browser,
                   url, normalized_url, title, links, exc, csv, saves, fetched,
                   dequeues, appended, pureVars>>

\* The signal arrives while the main thread is inside is_same_domain, whose
\* bare `except:` catches SystemExit and KeyboardInterrupt and returns
\* False: the dequeued URL is skipped, or the link is not enqueued, and
\* crawl() goes on.
SignalInIsSameDomain ==
    /\ signals < MaxSignals
    /\ Handler \/ NoHandler
    /\ \/ /\ pc = "check"
          /\ normalized_url \notin visited
          /\ pc' = "while"
          /\ UNCHANGED links
       \/ /\ pc = "link_loop"
          /\ links # <<>>
          /\ ~ InvalidIPv6(Head(links))
          /\ links' = Tail(links)
          /\ UNCHANGED pc
    /\ signals' = signals + 1
    /\ mark' = Marked
    /\ UNCHANGED <<variant, domain, visited, to_visit, results, url, normalized_url,
                   title, exc, fetched, dequeues, appended, pureVars>>

\* The signal arrives while spa_crawl.py is inside one of the bare
\* `except:` blocks of extract_page_info: the handler has stopped the
\* browser, SystemExit is caught, the title or the description stays '',
\* and crawl() goes on to append the record.
SignalInExtractPageInfo ==
    /\ signals < MaxSignals
    /\ variant = "spa_crawl"
    /\ pc \in {"extract_title", "extract_description"}
    /\ Handler
    /\ signals' = signals + 1
    /\ mark' = Marked
    /\ UNCHANGED <<variant, domain, visited, to_visit, results, pc, url,
                   normalized_url, title, links, exc, fetched, dequeues, appended, pureVars>>

\* The signal arrives while spa_crawl.py is inside the bare `except:` blocks
\* of extract_links: the anchors read so far are returned.
SignalInExtractLinks ==
    /\ signals < MaxSignals
    /\ variant = "spa_crawl"
    /\ pc = "extract_links"
    /\ Handler
    /\ \E k \in 0..Len(extract_links(variant, Anchors)) :
            links' = SubSeq(extract_links(variant, Anchors), 1, k)
    /\ pc' = "link_loop"
    /\ signals' = signals + 1
    /\ mark' = Marked
    /\ UNCHANGED <<variant, domain, visited, to_visit, results, url, normalized_url,
                   title, exc, fetched, dequeues, appended, pureVars>>

\* An exception that no except clause of crawl() catches is raised outside
\* the inner try (a print that fails, start_browser, urlparse): in crawl.py
\* and spa_crawl.py main() catches it (spa_crawl.py stops the browser) and
\* its finally clause is next; crawl_pages.py ends with a traceback.
Unexpected ==
    /\ pc \in {"crawl_start", "while", "check", "crawl_end"}
    /\ exc' = "Exception"
    /\ browser' = IF variant = "spa_crawl" THEN stop_browser(browser) ELSE browser
    /\ pc' = IF variant = "crawl_pages" THEN "exited" ELSE "save"
    /\ UNCHANGED <<variant, domain, visited, to_visit, results, interrupted, url,
                   normalized_url, title, links, csv, saves, signals, mark, fetched,
                   dequeues, appended, pureVars>>

Next ==
    \/ CrawlStart \/ Dequeue \/ LoopExit \/ Skip \/ MarkVisited \/ Fetch
    \/ ExtractTitle \/ ExtractDescription \/ ExtractLinks \/ OfferLink
    \/ LinksDone \/ Sleep \/ CrawlEnd \/ Save
    \/ SignalPropagates \/ Killed \/ SignalInIsSameDomain
    \/ SignalInExtractPageInfo \/ SignalInExtractLinks \/ Unexpected

Spec == Init /\ [][Next]_vars

---------------------------------------------------------------------------
(* Claims about a run *)

\* what the output file holds: nothing when it was never written
Output == IF csv.exists THEN csv.rows ELSE <<>>

Failed(outcome) == outcome \in {"timeout", "error"}

\* C1: each canonical URL appears at most once in the sequence of emitted
\* PageRecords, in every variant.
C1_NoDuplicateRecords ==
    \A i, j \in 1..Len(results) : results[i].url = results[j].url => i = j

\* a URL that already has its record was dequeued again
C1_Witness ==
    /\ pc = "check"
    /\ \E i \in 1..Len(results) : results[i].url = normalized_url

\* C2: in crawl.py and spa_crawl.py save_to_csv is invoked exactly once per
\* run when the run ends, whether the queue became empty or a signal
\* arrived during crawl().
C2_SavedExactlyOnce ==
    (variant \in {"crawl", "spa_crawl"} /\ pc = "exited" /\ exc # "Exception")
        => saves = 1

\* C3: if a signal arrives after N PageRecords have been appended, the
\* output written when the process exits contains exactly those N records,
\* in every variant.
C3_OutputIsRecordsAtSignal ==
    (pc \in {"exited", "killed"} /\ mark.set) => Output = mark.results

\* C4: once a signal has been delivered during crawl(), no further URL is
\* dequeued and no further fetch is started.
C4_NothingStartedAfterSignal ==
    mark.set => (dequeues = mark.ndequeues /\ Len(fetched) = mark.nfetched)

\* C5: in every variant, if an unexpected exception escapes crawl(),
\* save_to_csv is still invoked with the records accumulated so far before
\* the process terminates.
C5_SavedAfterUnexpectedError ==
    (pc = "exited" /\ exc = "Exception") => (saves >= 1 /\ Output = results)

\* C6: a fetch timeout or transport error for one URL never aborts the run:
\* the URL stays in visited, results and the queue are unchanged, the loop
\* goes on at its head, and no PageRecord is ever produced for that URL.
C6_FetchFailureIsNotFatal ==
    [][ /\ (Len(fetched') > Len(fetched) /\ Failed(fetched'[Len(fetched')].outcome))
           => /\ results' = results
              /\ to_visit' = to_visit
              /\ visited' = visited
              /\ fetched'[Len(fetched')].url \in visited'
              /\ pc' = "while"
        /\ (Len(results') > Len(results))
           => ~ \E i \in 1..Len(fetched') :
                    /\ fetched'[i].url = results'[Len(results')].url
                    /\ Failed(fetched'[i].outcome)
      ]_vars

\* a fetch timed out, and the next URL of the queue was fetched and recorded
C6_Witness ==
    /\ Len(results) >= 2
    /\ \E i \in 1..(Len(fetched) - 1) :
        /\ fetched[i].outcome = "timeout"
        /\ fetched[i + 1].outcome = "html"
        /\ results[Len(results)].url = fetched[i + 1].url

\* C9: at every point of every run, every PageRecord in results has a url
\* whose host (netloc) equals the origin's host exactly.
C9_RecordsInScope ==
    \A i \in 1..Len(results) :
        urlparse(results[i].url).netloc = urlparse(domain).netloc

\* the home page, which links to another host, was parsed, and two pages
\* have their records
C9_Witness ==
    /\ Len(results) >= 2
    /\ \E i \in 1..Len(fetched) : fetched[i].url = domain /\ fetched[i].outcome = "html"
    /\ pc = "sleep"

\* C10: a link discovered on a page whose host differs from the origin's
\* host is never appended to the queue; of the links on a page only the
\* in-scope ones are enqueued.
C10_ForeignLinkNotEnqueued ==
    [][ (pc = "link_loop" /\ links # <<>> /\ ~ is_same_domain(domain, Head(links)))
           => to_visit' = to_visit ]_vars

\* C11: at every point of every run no two queue entries normalize to the
\* same canonical URL, and no queue entry's canonical URL is in visited (a
\* visited URL is never queued again; offering a link to it is a no-op).
C11_QueueCanonicalUnique ==
    /\ \A i, j \in 1..Len(to_visit) :
            Canonical(to_visit[i]) = Canonical(to_visit[j]) => i = j
    /\ \A i \in 1..Len(to_visit) : Canonical(to_visit[i]) \notin visited

\* C12: on the requests fetch path (crawl.py, crawl_pages.py), a fetched URL
\* whose content type does not contain text/html is marked visited, gets no
\* PageRecord, and no link of it is offered to the queue.
C12_NonHtmlNotRecorded ==
    variant \in {"crawl", "crawl_pages"} =>
        \A i \in 1..Len(fetched) :
            fetched[i].outcome = "not_html" =>
                /\ fetched[i].url \in visited
                /\ ~ \E j \in 1..Len(results) : results[j].url = fetched[i].url
                /\ (i = Len(fetched) => links = <<>>)

\* a link of a page is accounted for: out of scope or not a page URL, or
\* else its canonical URL is visited or waits in the queue
Accounted(link, queue, seen) ==
    \A n \in {normalize_url(domain, link)} :
        (is_same_domain(domain, n) /\ (variant = "crawl_pages" \/ is_valid_page_url(n)))
            => \/ n \in seen
               \/ n \in Range(queue)
               \/ \E i \in 1..Len(queue) : Canonical(queue[i]) = n

\* C13: when a fetched page contains a malformed link, only that link is
\* discarded: when the handling of the page's links is over (no signal
\* having arrived), every well-formed, in-scope, crawlable link of the page
\* is queued or visited.
C13_OnlyMalformedLinkDiscarded ==
    [][ (pc \in {"extract_links", "link_loop"} /\ pc' \in {"sleep", "while"}
         /\ signals' = 0)
           => \A i \in 1..Len(Anchors) :
                  ~ InvalidIPv6(Anchors[i]) => Accounted(Anchors[i], to_visit', visited')
      ]_vars

\* C14: an iteration that marked a URL visited and attempted its fetch goes
\* back to the head of the loop through time.sleep(self.delay), whether the
\* fetch and the extraction succeeded or failed; the only exception is
\* crawl.py's skip of a response that is not text/html.
C14_SleepAfterEveryAttempt ==
    [][ (/\ pc \in {"fetch", "extract_title", "extract_description",
                     "extract_links", "link_loop", "sleep"}
         /\ pc' = "while"
         /\ signals' = signals
         /\ ~ (variant = "crawl" /\ pc = "fetch"
               /\ fetched'[Len(fetched')].outcome = "not_html"))
           => pc = "sleep"
      ]_vars

\* C16: a dequeued URL with a skip-extension is dropped -- the iteration
\* goes back to the head of the loop with no fetch and no extraction -- and
\* is marked visited; no PageRecord is ever appended for such a URL.
C16_BlockedExtensionDropped ==
    [][ /\ (/\ pc = "check"
             /\ ~ is_valid_page_url(normalized_url)
             /\ signals' = signals /\ exc' = exc)
               => /\ pc' = "while"
                  /\ normalized_url \in visited'
                  /\ results' = results /\ fetched' = fetched
        /\ (Len(results') > Len(results))
               => is_valid_page_url(results'[Len(results')].url)
      ]_vars

\* C17: for every origin the command line accepts, the seed URL passes the
\* tests made when it is dequeued, so that it is marked visited and fetched.
C17_SeedPassesChecks ==
    (pc = "check" /\ dequeues = 1) => ~ SkipDequeued(normalized_url)

\* C18: in every variant, when no PageRecord was accumulated, save_to_csv
\* neither creates nor overwrites the output file.
C18_EmptyFlushIsNoOp ==
    [][ (saves' > saves /\ results = <<>>) => csv' = csv ]_vars

\* the run ended because the queue became empty, with no signal and no
\* exception
Done == pc = "exited" /\ exc = "none" /\ signals = 0

\* the pages that were fetched successfully as HTML
HtmlPages == {fetched[i].url : i \in {k \in 1..Len(fetched) : fetched[k].outcome = "html"}}

\* the canonical URLs of the seed and of the well-formed links found on
\* those pages
Discovered ==
    {Canonical(domain)} \cup
    UNION { {Canonical(l) : l \in {h \in Range(LinksOf(u)) : ~ InvalidIPv6(h)}}
            : u \in HtmlPages }

\* C19: when a run ends with the queue empty and no cancellation, every
\* in-scope, crawlable canonical URL found by following links of pages
\* fetched successfully as HTML is in visited, and has a PageRecord if its
\* own fetch succeeded.  (A URL that normalize_url changes once more when it
\* is dequeued counts as visited under that second form, and as crawlable
\* only if both forms are.)
C19_ReachablePagesVisited ==
    Done =>
        \A n \in Discovered :
            (/\ is_same_domain(domain, n)
             /\ is_valid_page_url(n) /\ is_valid_page_url(Canonical(n)))
                => /\ n \in visited \/ Canonical(n) \in visited
                   /\ \A u \in {n, Canonical(n)} :
                        u \in HtmlPages => \E j \in 1..Len(results) : results[j].url = u

\* C21: a dequeued URL is added to visited before its fetch is started: a
\* URL whose fetch is about to start, is in progress or has finished is a
\* member of visited.
C21_VisitedBeforeFetch ==
    /\ pc = "fetch" => normalized_url \in visited
    /\ \A i \in 1..Len(fetched) : fetched[i].url \in visited

\* a fetch is about to start after another one has finished
C21_Witness == pc = "fetch" /\ Len(fetched) >= 1

\* position of a URL in the fetch history
FetchIndex(u) == CHOOSE i \in 1..Len(fetched) : fetched[i].url = u

\* C22: URLs are fetched in the order of their discovery: if canonical URL
\* A first entered the queue before canonical URL B and both are fetched,
\* A is fetched before B.
C22_FetchedInDiscoveryOrder ==
    \A i, j \in 1..Len(appended) :
        (/\ i < j
         /\ \E k \in 1..Len(fetched) : fetched[k].url = appended[i]
         /\ \E k \in 1..Len(fetched) : fetched[k].url = appended[j])
            => FetchIndex(appended[i]) < FetchIndex(appended[j])

\* C23: the results list changes only by appending, and the flushed output
\* lists the records in the order their pages were visited: the rows of the
\* file are the first records of results, and the records are in the order
\* of the fetches of their pages.
C23_ResultsAppendOnly ==
    /\ [][ \/ results' = results
            \/ /\ Len(results') = Len(results) + 1
               /\ SubSeq(results', 1, Len(results)) = results ]_vars
    /\ [](/\ Len(Output) <= Len(results)
          /\ Output = SubSeq(results, 1, Len(Output))
          /\ \A i, j \in 1..Len(results) :
                i < j => /\ \E k \in 1..Len(fetched) : fetched[k].url = results[i].url
                         /\ \E k \in 1..Len(fetched) : fetched[k].url = results[j].url
                         /\ FetchIndex(results[i].url) < FetchIndex(results[j].url))

\* the process has ended and the file holds at least two records
C23_Witness == pc = "exited" /\ csv.exists /\ Len(csv.rows) >= 2

\* C25: each canonical URL is fetched at most once per run in every
\* variant, whether its fetch succeeded, timed out or failed.
C25_FetchedAtMostOnce ==
    \A i, j \in 1..Len(fetched) : fetched[i].url = fetched[j].url => i = j

\* a page links to a URL whose fetch had failed, and the link is about to
\* be offered to the queue
C25_Witness ==
    /\ pc = "link_loop" /\ links # <<>>
    /\ ~ InvalidIPv6(Head(links))
    /\ \E i \in 1..Len(fetched) :
            fetched[i].url = Canonical(Head(links)) /\ Failed(fetched[i].outcome)

\* C26: an iteration that dequeues a URL which is already visited, out of
\* scope, or (crawl.py and spa_crawl.py) has a skip-extension changes nothing
\* except removing that entry from the queue: the pop takes the head of the
\* queue only, no fetch is started, no delay is slept, and visited, results
\* and the queue are as they were.
C26_SkipChangesNothing ==
    [][ /\ (pc = "while" /\ pc' = "check")
            => /\ to_visit' = Tail(to_visit)
               /\ visited' = visited /\ results' = results /\ fetched' = fetched
        /\ (/\ pc = "check"
            /\ \/ normalized_url \in visited
               \/ ~ is_same_domain(domain, normalized_url)
               \/ (variant \in {"crawl", "spa_crawl"}
                      /\ ~ is_valid_page_url(normalized_url)))
            => /\ pc' \in {"while", "save", "exited", "killed"}
               /\ to_visit' = to_visit
               /\ visited' = visited /\ results' = results /\ fetched' = fetched
      ]_vars

\* the loop is back at its head after an iteration that ended at a
\* `continue`: more entries were dequeued than URLs fetched
C26_Witness ==
    /\ pc = "while" /\ signals = 0 /\ exc = "none"
    /\ dequeues > Len(fetched)
    /\ to_visit # <<>>
    /\ \/ normalized_url \in visited
       \/ ~ is_valid_page_url(normalized_url)

---------------------------------------------------------------------------
(* Specification SpecLive: a run with no signal and no unexpected          *)
(* exception.  The process is one thread that executes its next statement  *)
(* as long as it has one: session.get has timeout=10, page.goto has        *)
(* Playwright's default timeout, time.sleep returns.                       *)

NextLive ==
    \/ CrawlStart \/ Dequeue \/ LoopExit \/ Skip \/ MarkVisited \/ Fetch
    \/ ExtractTitle \/ ExtractDescription \/ ExtractLinks \/ OfferLink
    \/ LinksDone \/ Sleep \/ CrawlEnd \/ Save

SpecLive == Init /\ [][NextLive]_vars /\ WF_vars(NextLive)

\* C20: with no cancellation the loop eventually finds the queue empty and
\* the run goes on to its end, whichever fetches fail and whatever cycles
\* the links of the site contain.
C20_ReachesDone == <>(pc = "crawl_end" /\ to_visit = <<>>)

\* the loop ended after a fetch had failed and after page /a, which links
\* back to the home page, had been parsed
C20_Witness ==
    /\ pc = "crawl_end" /\ to_visit = <<>>
    /\ \E i \in 1..Len(fetched) : Failed(fetched[i].outcome)
    /\ \E i \in 1..Len(fetched) :
            fetched[i].url = U(<<"/","a">>) /\ fetched[i].outcome = "html"

---------------------------------------------------------------------------
(* Specification SpecNorm: normalize_url applied to raw URLs *)

CrawlIdle ==
    /\ variant = "crawl" /\ domain = Origin /\ visited = {} /\ to_visit = <<>>
    /\ results = <<>> /\ interrupted = FALSE /\ browser = "none" /\ pc = "idle"
    /\ url = <<>> /\ normalized_url = <<>> /\ title = "" /\ links = <<>>
    /\ exc = "none" /\ csv = [exists |-> FALSE, rows |-> <<>>] /\ saves = 0
    /\ signals = 0 /\ mark = NoMark /\ fetched = <<>> /\ dequeues = 0
    /\ appended = <<>>

InitNorm ==
    /\ CrawlIdle
    /\ \E p \in RawParts :
        /\ raw = Compose(p)
        /\ \E r \in {"fragment", "slash"} :
            /\ rel = r
            /\ other = IF r = "fragment" THEN Compose(OtherFragment(p))
                                        ELSE Compose(OneMoreSlash(p))
    /\ once = <<>> /\ twice = <<>> /\ onceOther = <<>> /\ ndone = {}
    /\ vparts = NoParts /\ vurl = <<>> /\ valid = "unset"

NormalizeRaw ==
    /\ "once" \notin ndone
    /\ once' = normalize_url(domain, raw)
    /\ ndone' = ndone \cup {"once"}
    /\ UNCHANGED <<crawlVars, validVars, raw, other, rel, twice, onceOther>>

NormalizeAgain ==
    /\ "once" \in ndone /\ "twice" \notin ndone
    /\ twice' = normalize_url(domain, once)
    /\ ndone' = ndone \cup {"twice"}
    /\ UNCHANGED <<crawlVars, validVars, raw, other, rel, once, onceOther>>

NormalizeOther ==
    /\ "other" \notin ndone
    /\ onceOther' = normalize_url(domain, other)
    /\ ndone' = ndone \cup {"other"}
    /\ UNCHANGED <<crawlVars, validVars, raw, other, rel, once, twice>>

NextNorm == NormalizeRaw \/ NormalizeAgain \/ NormalizeOther

SpecNorm == InitNorm /\ [][NextNorm]_vars

---------------------------------------------------------------------------
(* Claims about normalize_url *)

\* C7: normalize_url is idempotent: for every raw URL u,
\* normalize_url(normalize_url(u)) = normalize_url(u).
C7_Idempotent == "twice" \in ndone => twice = once

\* C8: two raw URLs that differ only in their fragment, or only in one
\* trailing '/' at the end of the path, normalize to the same canonical URL,
\* which has no fragment and whose path has no trailing slash.
C8_FragmentAndSlash ==
    ({"once", "other"} \subseteq ndone) =>
        /\ once = onceOther
        /\ urlparse(once).fragment = <<>>
        /\ ~ EndsWith(urlparse(once).path, <<"/">>)

---------------------------------------------------------------------------
(* Specification SpecFallback: normalize_url applied to raw URLs among    *)
(* which some have no scheme and no host                                  *)

\* raw URLs with no scheme, no host, and a path of '/' only (or none), with
\* or without a fragment; and the raw URLs of SpecNorm
FallbackInputs ==
    {Slashes(n) : n \in 0..MaxSlashes}
    \cup {Slashes(n) \o <<"#","f">> : n \in 0..MaxSlashes}
    \cup {Compose(p) : p \in RawParts}

InitFallback ==
    /\ CrawlIdle
    /\ raw \in FallbackInputs
    /\ other = <<>> /\ rel = "none"
    /\ once = <<>> /\ twice = <<>> /\ onceOther = <<>> /\ ndone = {}
    /\ vparts = NoParts /\ vurl = <<>> /\ valid = "unset"

NextFallback == NormalizeRaw \/ NormalizeAgain

SpecFallback == InitFallback /\ [][NextFallback]_vars

\* the URL has no scheme, no host, no query, and its path is empty or made
\* of '/' only
NoLocation(u) ==
    \A parsed \in {urlparse(u)} :
        /\ parsed.scheme = <<>> /\ parsed.netloc = <<>> /\ parsed.query = <<>>
        /\ \A i \in 1..Len(parsed.path) : parsed.path[i] = "/"

\* C24: normalize_url falls back to the configured origin (self.domain) for
\* a raw URL that has no scheme, no host and an empty or '/'-only path.
C24_FallsBackToOrigin ==
    ("once" \in ndone /\ NoLocation(raw)) => once = domain

---------------------------------------------------------------------------
(* Specification SpecValid: is_valid_page_url applied to URLs *)

\* The URLs is_valid_page_url is applied to: a path with no extension, with
\* a skip-extension in lower, upper or mixed case, with one that is not at
\* its end, with another extension; a query and a fragment that may
\* themselves end in a skip-extension.
ValidParts ==
    [ head : {[scheme |-> HTTP, auth |-> Some(HostX)]},
      path : { <<>>, <<"/">>, <<"/","a">>, <<"/","p","d","f">>,
               <<"/","a",".","p","d","f">>, <<"/","a",".","P","D","F">>,
               <<"/","a",".","P","d","f">>, <<"/","a",".","p","d","f","/">>,
               <<"/","a",".","p","d","f","x">>, <<"/","a",".","j","s">>,
               <<"/",".","J","S">>, <<"/","a",".","t","a","r",".","g","z">>,
               <<"/","a",".","j","s",".","h","t","m","l">>,
               <<"/","a",".","j","s","o","n">>, <<"/","a",".","j","s","o">>,
               <<"/","a",".","m","p","4">>, <<"/","a",".","M","P","3">> },
      query : {Absent, Some(<<"q">>), Some(<<"a",".","p","d","f">>), Some(<<".","J","S">>)},
      fragment : {Absent, Some(<<"f">>), Some(<<".","p","n","g">>)} ]

InitValid ==
    /\ CrawlIdle
    /\ raw = <<>> /\ other = <<>> /\ rel = "none"
    /\ once = <<>> /\ twice = <<>> /\ onceOther = <<>> /\ ndone = {}
    /\ vparts \in ValidParts
    /\ vurl = Compose(vparts)
    /\ valid = "unset"

IsValidPageUrl ==
    /\ valid = "unset"
    /\ valid' = IF is_valid_page_url(vurl) THEN "True" ELSE "False"
    /\ UNCHANGED <<crawlVars, normVars, vparts, vurl>>

NextValid == IsValidPageUrl

SpecValid == InitValid /\ [][NextValid]_vars

\* the path ends with this extension, letter case apart
EndsWithIgnoringCase(path, ext) ==
    /\ Len(ext) <= Len(path)
    /\ \A k \in 1..Len(ext) : LowerChar(path[Len(path) - Len(ext) + k]) = ext[k]

\* C15: is_valid_page_url is false exactly when the path of the URL ends
\* with one of the skip-extensions, in any letter case, and true otherwise,
\* whatever the query string and the fragment contain.
C15_ValidIffNoSkipExtension ==
    valid # "unset" =>
        (valid = "True" <=> ~ \E ext \in skip_extensions : EndsWithIgnoringCase(vparts.path, ext))

\* a URL whose path ends in an upper-case skip-extension and that has a
\* query was found not to be a page URL
C15_Witness ==
    /\ valid = "False"
    /\ vparts.path = <<"/","a",".","P","D","F">>
    /\ vparts.query.has

=============================================================================
